---- MODULE Spec2Model ----
(***************************************************************************)
(* pytrainer: the Activity class (pytrainer/lib/activity.py) and the       *)
(* Strava upload extension (extensions/stravaupload/stravaupload.py).      *)
(*                                                                         *)
(* Python values are tagged records: None, Float(v), Str(s).  A float is   *)
(* held in fixed point, as an integer number of thousandths (5.30 is       *)
(* Float(5300)); a string is a sequence of one-character strings.          *)
(***************************************************************************)
EXTENDS Integers, Sequences, FiniteSets, TLC

VARIABLES
    pc,         \* "start" | "returned" | "raised": where the last call ended
    exc,        \* the exception that left the last call, "none" if it returned
    world,      \* the constructor's arguments and what its collaborators answered;
                \* for the upload extension, its files and the server's answers
    self,       \* the Activity instance: attribute name -> value (NoInstance before)
    inserts,    \* the laps handed to record.insertLaps, in call order
    call,       \* the last method called on the instance, with its arguments
    ret,        \* what that call returned
    paceIn,     \* pace string given to pace_to_float
    paceFloat,  \* what pace_to_float returned for paceIn
    paceOut,    \* what pace_from_float returned for paceFloat
    dialogs     \* the texts of the message dialogs shown, in order

vars == <<pc, exc, world, self, inserts, call, ret, paceIn, paceFloat, paceOut, dialogs>>

---------------------------------------------------------------------------
(* Python values                                                           *)

None == [t |-> "None"]
Float(v) == [t |-> "float", v |-> v]
Str(s) == [t |-> "str", s |-> s]
PyInt(v) == [t |-> "int", v |-> v]
List(s) == [t |-> "list", v |-> s]

\* Python truth value: None, 0.0 and "" are false.
Truthy(x) ==
    CASE x.t = "float" -> x.v # 0
      [] x.t = "int" -> x.v # 0
      [] x.t = "list" -> x.v # <<>>
      [] x.t = "str" -> x.s # <<>>
      [] OTHER -> FALSE

DigitChars == <<"0", "1", "2", "3", "4", "5", "6", "7", "8", "9">>

IsDigit(c) == \E i \in 1..10 : DigitChars[i] = c

DigitVal(c) == (CHOOSE i \in 1..10 : DigitChars[i] = c) - 1

RECURSIVE NatToStr(_)
NatToStr(n) ==
    IF n < 10 THEN <<DigitChars[n + 1]>>
    ELSE NatToStr(n \div 10) \o <<DigitChars[(n % 10) + 1]>>

RECURSIVE DigitsToNat(_)
DigitsToNat(s) ==
    IF s = <<>> THEN 0
    ELSE DigitsToNat(SubSeq(s, 1, Len(s) - 1)) * 10 + DigitVal(s[Len(s)])

\* str.replace(old, new) for one-character old and new.
Replace(s, old, new) == [i \in 1..Len(s) |-> IF s[i] = old THEN new ELSE s[i]]

DotAt(s) == {i \in 1..Len(s) : s[i] = "."}

\* float(s) accepts digits with at most one point and at least one digit
\* (of the characters the model draws); anything else is a ValueError.
FloatParses(s) ==
    /\ \A i \in 1..Len(s) : IsDigit(s[i]) \/ s[i] = "."
    /\ Cardinality(DotAt(s)) <= 1
    /\ \E i \in 1..Len(s) : IsDigit(s[i])

\* The value of float(s) in thousandths, for at most three fraction digits.
FloatOfStr(s) ==
    LET p == IF DotAt(s) = {} THEN Len(s) + 1 ELSE CHOOSE i \in DotAt(s) : TRUE
        ip == SubSeq(s, 1, p - 1)
        fp == SubSeq(s, p + 1, Len(s))
        f3 == SubSeq(fp \o <<"0", "0", "0">>, 1, 3)
    IN  DigitsToNat(ip) * 1000 + DigitsToNat(f3)

\* "%0.2f" % v for v >= 0 in thousandths: rounded to hundredths, two fraction
\* digits always written.  (No value of the model has a third digit of 5,
\* where the binary representation decides the direction.)
Format2f(v) ==
    LET h == (v + 5) \div 10
    IN  NatToStr(h \div 100) \o <<".">>
            \o <<DigitChars[((h \div 10) % 10) + 1], DigitChars[(h % 10) + 1]>>

---------------------------------------------------------------------------
(* Pace strings                                                            *)

\* Activity.pace_to_float: [exc, ret].
pace_to_float(value) ==
    IF value.t # "str"
    THEN [exc |-> "AttributeError", ret |-> None]
    ELSE LET v == Replace(value.s, ":", ".")
         IN  IF FloatParses(v)
             THEN [exc |-> "none", ret |-> Float(FloatOfStr(v))]
             ELSE [exc |-> "none", ret |-> None]

\* pace_from_float that leaves the decimal point in place.
pace_from_float_dot(value) ==
    IF ~Truthy(value) THEN Str(<<>>)
    ELSE Str(IF value.t = "float" THEN Format2f(value.v)
             ELSE IF FloatParses(value.s) THEN Format2f(FloatOfStr(value.s))
             ELSE value.s)

\* Activity.pace_from_float
pace_from_float(value) ==
    IF ~Truthy(value) THEN Str(<<>>)
    ELSE LET txt == IF value.t = "float" THEN Format2f(value.v)
                    ELSE IF FloatParses(value.s) THEN Format2f(FloatOfStr(value.s))
                    ELSE value.s
         IN  Str(Replace(txt, ".", ":"))

---------------------------------------------------------------------------
(* Bounds *)

MaxPoints == 2
MaxLaps == 2
MaxMinuteDigits == 2

---------------------------------------------------------------------------
(* Collaborators: unit conversion, graph series, track-log, database       *)

\* A number's value in thousandths.
Milli(x) == IF x.t = "int" THEN x.v * 1000 ELSE x.v

\* v times num/1000000, truncated (v in thousandths).
Scaled(v, hi, lo) == (v * hi + (v * lo) \div 1000) \div 1000

\* unitsconversor.km2miles: kilometres times 0.621371.
km2miles(x) == Float(Scaled(Milli(x), 621, 371))

\* unitsconversor.miles2mk: miles times 1.609344.
miles2mk(x) == Float(Scaled(Milli(x), 1609, 344))

\* unitsconversor.m2feet: metres times 3.28084.
m2feet(x) == Float(Scaled(Milli(x), 3280, 840))

\* unitsconversor.feet2m: feet times 0.3048.
feet2m(x) == Float(Scaled(Milli(x), 304, 800))

\* unitsconversor.pacekm2miles: minutes per kilometre to minutes per mile.
pacekm2miles(x) == Float(Scaled(Milli(x), 1609, 344))

\* unitsconversor.pacemiles2mk: minutes per mile to minutes per kilometre.
pacemiles2mk(x) == Float(Scaled(Milli(x), 621, 371))

\* GraphData(): a series with no points yet.
GraphData == <<>>

\* GraphData.addPoints / addBars: append (x, y); a point whose x or y is
\* absent adds nothing.
addPoints(series, x, y) ==
    IF x = None \/ y = None THEN series
    ELSE Append(series, <<x, y>>)

addBars(series, x, y) == addPoints(series, x, y)

\* Date.second2time: seconds to (hours, minutes, seconds).
second2time(secs) == <<secs \div 3600, (secs % 3600) \div 60, secs % 60>>

\* Unit labels (the translation function _ is the identity here).
L_km == <<"k", "m">>
L_miles == <<"m", "i", "l", "e", "s">>
L_kmh == <<"k", "m", "/", "h">>
L_mph == <<"m", "i", "l", "e", "s", "/", "h">>
L_minkm == <<"m", "i", "n", "/", "k", "m">>
L_minmile == <<"m", "i", "n", "/", "m", "i", "l", "e">>
L_m == <<"m">>
L_feet == <<"f", "e", "e", "t">>

---------------------------------------------------------------------------
(* What the constructor is given: the track-log, the database, the profile *)

TheId == PyInt(7)

PointKinds == {"stop", "slow"}

\* A trackpoint of the parsed track-log: the i-th point lies 5 km and 30 s
\* after the one before it.
Trackpoint(kind, i) ==
    [elapsed_distance |-> Float(5000 * i),
     time_elapsed |-> Float(30000 * i),
     ele |-> Float(100000),
     correctedElevation |-> Float(110000),
     velocity |-> IF kind = "stop" THEN Float(0) ELSE Float(10000),
     hr |-> IF kind = "stop" THEN None ELSE PyInt(120),
     cadence |-> None]

TrackLists ==
    UNION {{[i \in 1..n |-> Trackpoint(k[i], i)] : k \in [1..n -> PointKinds]} :
           n \in 0..MaxPoints}

\* A lap of the track-log, as Gpx.getLaps gives it:
\* (elapsed_time, end_lat, end_lon, calories, distance, start_lat, start_lon).
\* "run" covers 1 km in 360 s, "halt" no distance in 360 s, "rest" no
\* distance in no time.
GpxLap(kind) ==
    CASE kind = "run" ->
            <<Str(<<"3", "6", "0">>), Float(48100), Float(11500), PyInt(60),
              Float(1000000), Float(48000), Float(11000)>>
      [] kind = "halt" ->
            <<Str(<<"3", "6", "0">>), Float(48000), Float(11000), PyInt(5),
              Float(0), Float(48000), Float(11000)>>
      [] OTHER ->
            <<Str(<<"0">>), Float(48000), Float(11000), PyInt(0),
              Float(0), Float(48000), Float(11000)>>

GpxLapLists ==
    UNION {[1..n -> {GpxLap("run"), GpxLap("halt"), GpxLap("rest")}] : n \in 0..MaxLaps}

\* A row of the laps table; its elapsed_time is text.
DbLap(kind, i) ==
    [id_lap |-> PyInt(i), record |-> TheId,
     elapsed_time |-> IF kind = "run" THEN Str(<<"3", "6", "0">>) ELSE Str(<<"a">>),
     distance |-> Float(1000000),
     start_lat |-> Float(48000), start_lon |-> Float(11000),
     end_lat |-> Float(48100), end_lon |-> Float(11500),
     calories |-> PyInt(60), lap_number |-> PyInt(i - 1), intensity |-> None,
     avg_hr |-> None, max_hr |-> None, max_speed |-> None,
     laptrigger |-> None, comments |-> None]

DbLapLists ==
    UNION {{[i \in 1..n |-> DbLap(k[i], i)] : k \in [1..n -> {"run", "bad"}]} :
           n \in 0..MaxLaps}

\* The track-log of an activity, parsed: total_time is the laps' duration,
\* total_time_trkpts the trackpoints'.
NoGpx == [exists |-> FALSE]

GpxFiles ==
    {[exists |-> TRUE, trkpoints |-> tl, laps |-> ll,
      total_dist |-> Float(5000 * Len(tl)),
      total_time |-> 60, total_time_trkpts |-> tt] :
        tl \in TrackLists, ll \in GpxLapLists, tt \in {56, 64, 70}}

\* A row of records joined with sports.
DbRow(max_pace, full) ==
    [sport_name |-> IF full THEN Str(<<"R", "u", "n">>) ELSE None,
     max_pace |-> max_pace,
     title |-> None,
     comments |-> None,
     time |-> IF full THEN PyInt(3725) ELSE None,
     calories |-> IF full THEN PyInt(500) ELSE None,
     distance |-> IF full THEN Float(10000) ELSE None,
     average |-> IF full THEN Float(9660) ELSE None,
     upositive |-> IF full THEN Float(120000) ELSE None,
     unegative |-> IF full THEN Float(80000) ELSE None,
     maxspeed |-> IF full THEN Float(14200) ELSE None,
     maxpace |-> IF full THEN Float(4130) ELSE Str(<<>>),
     pace |-> IF full THEN Float(6120) ELSE None]

DbRows ==
    {DbRow(Float(5000), TRUE), DbRow(Float(8000), TRUE),
     DbRow(PyInt(0), TRUE), DbRow(Str(<<>>), FALSE)}

\* Heart-rate zones of the profile: (lower, upper, colour, label).
Zone == <<PyInt(100), PyInt(140), "#ffff99", "Moderate">>

---------------------------------------------------------------------------
(* Activity: construction                                                  *)

NoInstance == [t |-> "NoInstance"]

\* A local variable of the code: the value e under the name of F's parameter.
Local(e, F(_)) == F(e)

\* Activity._float
_float(value) ==
    CASE value.t = "float" -> value
      [] value.t = "int" -> Float(value.v * 1000)
      [] value.t = "str" /\ FloatParses(value.s) -> Float(FloatOfStr(value.s))
      [] OTHER -> Float(0)

\* Activity._int
_int(value) ==
    CASE value.t = "int" -> value
      [] value.t = "float" -> PyInt(value.v \div 1000)
      [] value.t = "str" /\ value.s # <<>> /\ (\A i \in 1..Len(value.s) : IsDigit(value.s[i]))
            -> PyInt(DigitsToNat(value.s))
      [] OTHER -> PyInt(0)

\* Activity._set_units
_set_units(s) ==
    LET du == IF s.us_system THEN L_miles ELSE L_km
        su == IF s.us_system THEN L_mph ELSE L_kmh
        pu == IF s.us_system THEN L_minmile ELSE L_minkm
        hu == IF s.us_system THEN L_feet ELSE L_m
    IN  [distance_unit |-> du, speed_unit |-> su, pace_unit |-> pu, height_unit |-> hu,
         units |-> [distance |-> du, average |-> su, upositive |-> hu, unegative |-> hu,
                    maxspeed |-> su, pace |-> pu, maxpace |-> pu]] @@ s

acceptable_lapse == 4

\* _init_from_gpx_file taking a difference equal to the lapse as a pause.
_init_from_gpx_file_inclusive(s, gpx) ==
    LET time_diff == gpx.total_time_trkpts - gpx.total_time
    IN  [tracklist |-> List(gpx.trkpoints),
         gpx_distance |-> gpx.total_dist,
         time_pause |-> IF time_diff >= acceptable_lapse THEN time_diff
                        ELSE s.time_pause] @@ s

\* Activity._init_from_gpx_file
_init_from_gpx_file(s, gpx) ==
    LET time_diff == gpx.total_time_trkpts - gpx.total_time
    IN  [tracklist |-> List(gpx.trkpoints),
         gpx_distance |-> gpx.total_dist,
         time_pause |-> IF time_diff > acceptable_lapse THEN time_diff ELSE s.time_pause] @@ s

\* The lap dict _get_laps_from_gpx builds for one track-log lap; its number
\* is the index of the first lap of the list equal to it.
tmp_lap(s, gpxLaps, lap) ==
    [record |-> s.id,
     lap_number |-> PyInt((CHOOSE i \in 1..Len(gpxLaps) :
                             /\ gpxLaps[i] = lap
                             /\ \A j \in 1..(i - 1) : gpxLaps[j] # lap) - 1),
     elapsed_time |-> lap[1],
     distance |-> lap[5],
     start_lat |-> lap[6],
     start_lon |-> lap[7],
     end_lat |-> lap[2],
     end_lon |-> lap[3],
     calories |-> lap[4]]

\* Activity._get_laps_from_gpx: [exc, laps, inserts].  record.insertLaps is
\* called for each lap in turn; fail_at is the call that raises (0: none).
_get_laps_from_gpx(s, gpxLaps, fail_at) ==
    LET laps == [i \in 1..Len(gpxLaps) |-> tmp_lap(s, gpxLaps, gpxLaps[i])]
    IN  IF fail_at \in 1..Len(laps)
        THEN [exc |-> "InsertError", laps |-> None, inserts |-> SubSeq(laps, 1, fail_at)]
        ELSE [exc |-> "none", laps |-> List(laps), inserts |-> laps]

\* Activity._init_from_db once the row count is accepted: the scalar
\* fields from the first row, then the laps.
load_row(s, w) ==
         LET row == w.db_result[1]
             distance == _float(row.distance)
             s1 == [sport_name |-> IF row.sport_name = None THEN Str(<<>>) ELSE row.sport_name,
                    pace_limit |-> IF row.max_pace = PyInt(0) \/ row.max_pace = Float(0)
                                      \/ row.max_pace = Str(<<>>)
                                   THEN None ELSE row.max_pace,
                    title |-> IF row.title = None THEN Str(<<>>) ELSE row.title,
                    time |-> _int(row.time),
                    time_tuple |-> second2time(_int(row.time).v),
                    comments |-> IF row.comments = None THEN Str(<<>>) ELSE row.comments,
                    calories |-> _int(row.calories),
                    distance |-> IF ~Truthy(distance) THEN s.gpx_distance ELSE distance,
                    average |-> _float(row.average),
                    upositive |-> _float(row.upositive),
                    unegative |-> _float(row.unegative),
                    maxspeed |-> _float(row.maxspeed),
                    maxpace |-> _float(row.maxpace),
                    pace |-> _float(row.pace),
                    has_data |-> TRUE] @@ s
             laps == w.db_laps
         IN  Local(s1, LAMBDA self1 :
             IF laps = None \/ laps = List(<<>>) \/ Len(laps.v) < 1
             THEN IF s.gpx_file
                  THEN Local(_get_laps_from_gpx(self1, w.gpx.laps, w.fail_at), LAMBDA g :
                            [exc |-> g.exc,
                             self |-> [laps |-> g.laps] @@ self1,
                             inserts |-> g.inserts,
                             asked |-> {"db_result", "db_laps", "fail_at"}])
                  ELSE [exc |-> "none", self |-> [laps |-> laps] @@ self1, inserts |-> <<>>,
                        asked |-> {"db_result", "db_laps"}]
             ELSE [exc |-> "none", self |-> [laps |-> laps] @@ self1, inserts |-> <<>>,
                   asked |-> {"db_result", "db_laps"}])

\* _init_from_db accepting any result that has a row.
_init_from_db_any_row(s, w) ==
    IF Len(w.db_result) >= 1
    THEN load_row(s, w)
    ELSE [exc |-> "Exception", self |-> s, inserts |-> <<>>, asked |-> {"db_result"}]

\* Activity._init_from_db: [exc, self, inserts, asked]; asked names the
\* collaborators' answers it read.
_init_from_db(s, w) ==
    IF Len(w.db_result) = 1
    THEN load_row(s, w)
    ELSE [exc |-> "Exception", self |-> s, inserts |-> <<>>, asked |-> {"db_result"}]

PointSeries == {"elevation", "cor_elevation", "speed", "pace", "hr", "hr_p", "cadence"}

\* track_pace taking no account of the pace limit.
track_pace_unlimited(s, track) ==
    IF track.velocity = None \/ Milli(track.velocity) = 0
    THEN PyInt(0)
    ELSE Float(60000000 \div Milli(track.velocity))

\* The pace of one trackpoint (the first try block of the loop).
track_pace(s, track) ==
    IF track.velocity = None \/ Milli(track.velocity) = 0
    THEN PyInt(0)
    ELSE LET pace == 60000000 \div Milli(track.velocity)
         IN  IF s.pace_limit # None /\ pace > Milli(s.pace_limit)
             THEN PyInt(0)
             ELSE Float(pace)

\* The heart rate of one trackpoint as a percentage of maxhr.
track_hr_p(track, maxhr) ==
    IF track.hr = None \/ maxhr = None \/ Milli(maxhr) = 0
    THEN PyInt(0)
    ELSE Float((Milli(track.hr) * 100) \div (Milli(maxhr) \div 1000))

\* add_track converting the distance-indexed series only: the time-indexed
\* elevation, speed and pace stay metric in either system.
add_track_distance_only(s, d, track, maxhr) ==
    LET pace == track_pace(s, track)
        hr_p == track_hr_p(track, maxhr)
        xd == IF s.us_system THEN km2miles(track.elapsed_distance) ELSE track.elapsed_distance
        xt == track.time_elapsed
        ele == IF s.us_system THEN m2feet(track.ele) ELSE track.ele
        cor == IF s.us_system THEN m2feet(track.correctedElevation)
               ELSE track.correctedElevation
        speed == IF s.us_system THEN km2miles(track.velocity) ELSE track.velocity
        ypace == IF s.us_system THEN pacekm2miles(pace) ELSE pace
    IN  [distance_data |->
            [d.distance_data EXCEPT
                !["elevation"] = addPoints(@, xd, ele),
                !["cor_elevation"] = addPoints(@, xd, cor),
                !["speed"] = addPoints(@, xd, speed),
                !["pace"] = addPoints(@, xd, ypace),
                !["hr"] = addPoints(@, xd, track.hr),
                !["hr_p"] = addPoints(@, xd, hr_p),
                !["cadence"] = addPoints(@, xd, track.cadence)],
         time_data |->
            [d.time_data EXCEPT
                !["elevation"] = addPoints(@, xt, track.ele),
                !["cor_elevation"] = addPoints(@, xt, track.correctedElevation),
                !["speed"] = addPoints(@, xt, track.velocity),
                !["pace"] = addPoints(@, xt, pace),
                !["hr"] = addPoints(@, xt, track.hr),
                !["hr_p"] = addPoints(@, xt, hr_p),
                !["cadence"] = addPoints(@, xt, track.cadence)]]

\* The body of the loop over the tracklist: d is [distance_data, time_data].
add_track(s, d, track, maxhr) ==
    LET pace == track_pace(s, track)
        hr_p == track_hr_p(track, maxhr)
        xd == IF s.us_system THEN km2miles(track.elapsed_distance) ELSE track.elapsed_distance
        xt == track.time_elapsed
        ele == IF s.us_system THEN m2feet(track.ele) ELSE track.ele
        cor == IF s.us_system THEN m2feet(track.correctedElevation)
               ELSE track.correctedElevation
        speed == IF s.us_system THEN km2miles(track.velocity) ELSE track.velocity
        ypace == IF s.us_system THEN pacekm2miles(pace) ELSE pace
    IN  [distance_data |->
            [d.distance_data EXCEPT
                !["elevation"] = addPoints(@, xd, ele),
                !["cor_elevation"] = addPoints(@, xd, cor),
                !["speed"] = addPoints(@, xd, speed),
                !["pace"] = addPoints(@, xd, ypace),
                !["hr"] = addPoints(@, xd, track.hr),
                !["hr_p"] = addPoints(@, xd, hr_p),
                !["cadence"] = addPoints(@, xd, track.cadence)],
         time_data |->
            [d.time_data EXCEPT
                !["elevation"] = addPoints(@, xt, ele),
                !["cor_elevation"] = addPoints(@, xt, cor),
                !["speed"] = addPoints(@, xt, speed),
                !["pace"] = addPoints(@, xt, ypace),
                !["hr"] = addPoints(@, xt, track.hr),
                !["hr_p"] = addPoints(@, xt, hr_p),
                !["cadence"] = addPoints(@, xt, track.cadence)]]

RECURSIVE add_tracks(_, _, _, _, _)
add_tracks(s, d, tracklist, i, maxhr) ==
    IF i > Len(tracklist) THEN d
    ELSE add_tracks(s, add_track(s, d, tracklist[i], maxhr), tracklist, i + 1, maxhr)

\* "Remove data with no values": the entries of a mapping that hold points.
remove_empty(data) == [k \in {n \in DOMAIN data : Len(data[n]) # 0} |-> data[k]]

RECURSIVE add_zones(_, _, _)
add_zones(series, zones, i) ==
    IF i > Len(zones) THEN series
    ELSE add_zones(addPoints(series, zones[i][1], zones[i][2]), zones, i + 1)

\* Activity._init_graph_data
_init_graph_data(s, w) ==
    IF s.tracklist = None THEN s
    ELSE LET d0 == [distance_data |-> [k \in PointSeries |-> GraphData] @@ s.distance_data,
                    time_data |-> [k \in PointSeries |-> GraphData] @@ s.time_data]
         IN  Local(add_tracks(s, d0, s.tracklist.v, 1, w.maxhr), LAMBDA d1 :
             Local(remove_empty(d1.distance_data), LAMBDA dd :
             Local(remove_empty(d1.time_data), LAMBDA td :
                IF "hr" \in DOMAIN dd
                THEN [distance_data |-> ("hr_z" :> add_zones(GraphData, w.zones, 1)) @@ dd,
                      time_data |-> ("hr_z" :> add_zones(GraphData, w.zones, 1)) @@ td] @@ s
                ELSE [distance_data |-> dd, time_data |-> td] @@ s)))

\* The first try statement of the loop over the laps with no except clause.
lap_pace_uncaught(time, dist) ==
    IF 60 * dist = 0 THEN [exc |-> "ZeroDivisionError", v |-> 0]
    ELSE [exc |-> "none", v |-> (time * 1000) \div (60 * dist)]

\* The first try statement of the loop over the laps: pace = time/(60*dist)
\* in min/km, 0.0 on ZeroDivisionError.  [exc, v]: the exception that leaves
\* the statement and the pace in thousandths (time and dist in thousandths).
lap_pace(time, dist) ==
    IF 60 * dist = 0 THEN [exc |-> "none", v |-> 0]
    ELSE [exc |-> "none", v |-> (time * 1000) \div (60 * dist)]

\* The second try statement: avg_speed = dist/(time/3600) in km/h, 0.0 on
\* any exception.
lap_avg_speed(time, dist) ==
    IF time = 0 THEN 0
    ELSE ((dist * 3600) \div time) * 1000 + (((dist * 3600) % time) * 1000) \div time

\* The body of the loop over the laps: [exc, self].
add_lap(s, lap) ==
    IF lap.elapsed_time.t # "str" \/ ~FloatParses(lap.elapsed_time.s)
    THEN [exc |-> IF lap.elapsed_time.t # "str" THEN "AttributeError" ELSE "ValueError",
          self |-> s]
    ELSE IF lap_pace(FloatOfStr(lap.elapsed_time.s), Milli(lap.distance) \div 1000).exc
                # "none"
    THEN [exc |-> lap_pace(FloatOfStr(lap.elapsed_time.s),
                           Milli(lap.distance) \div 1000).exc,
          self |-> s]
    ELSE LET time == FloatOfStr(lap.elapsed_time.s)
             dist == Milli(lap.distance) \div 1000
             pace0 == lap_pace(time, dist).v
             avg_speed == lap_avg_speed(time, dist)
             pace == IF s.pace_limit # None /\ pace0 > Milli(s.pace_limit) THEN 0 ELSE pace0
             x == IF s.us_system THEN km2miles(Float(dist)) ELSE Float(dist)
             ypace == IF s.us_system THEN pacekm2miles(Float(pace)) ELSE Float(pace)
             yspeed == IF s.us_system THEN km2miles(Float(avg_speed)) ELSE Float(avg_speed)
         IN  [exc |-> "none",
              self |->
                [lap_time |-> addBars(s.lap_time, Float(time), PyInt(10)),
                 lap_distance |-> addBars(s.lap_distance, x, PyInt(10)),
                 distance_data |->
                    [s.distance_data EXCEPT !["pace_lap"] = addBars(@, x, ypace),
                                            !["speed_lap"] = addBars(@, x, yspeed)],
                 time_data |->
                    [s.time_data EXCEPT !["pace_lap"] = addBars(@, Float(time), ypace),
                                        !["speed_lap"] = addBars(@, Float(time), yspeed)]]
                @@ s]

RECURSIVE add_laps(_, _, _)
add_laps(s, laps, i) ==
    IF i > Len(laps) THEN [exc |-> "none", self |-> s]
    ELSE Local(add_lap(s, laps[i]), LAMBDA r :
            IF r.exc # "none" THEN r ELSE add_laps(r.self, laps, i + 1))

\* Activity._generate_per_lap_graphs: [exc, self].
_generate_per_lap_graphs(s) ==
    IF s.laps = None THEN [exc |-> "none", self |-> s]
    ELSE LET s0 == [lap_distance |-> GraphData,
                    lap_time |-> GraphData,
                    distance_data |-> [k \in {"pace_lap", "speed_lap"} |-> GraphData]
                                        @@ s.distance_data,
                    time_data |-> [k \in {"pace_lap", "speed_lap"} |-> GraphData]
                                        @@ s.time_data] @@ s
         IN  add_laps(s0, s.laps.v, 1)

\* Activity.__init__: [exc, self, inserts, asked].  An exception leaves the
\* caller without an instance.
Activity__init__(w) ==
    IF w.id = None
    THEN [exc |-> "none", self |-> [id |-> w.id], inserts |-> <<>>, asked |-> {"id"}]
    ELSE IF w.pytrainer_main = None
    THEN [exc |-> "none", self |-> [id |-> w.id], inserts |-> <<>>,
          asked |-> {"id", "pytrainer_main"}]
    ELSE LET base == {"id", "pytrainer_main", "us_system", "gpx"}
         IN  Local(_set_units(
                     [id |-> w.id, tracks |-> None, tracklist |-> None, laps |-> None,
                      has_data |-> FALSE, distance_data |-> <<>>, time_data |-> <<>>,
                      time_pause |-> 0, pace_limit |-> None, starttime |-> None,
                      gpx_distance |-> None, us_system |-> w.us_system,
                      gpx_file |-> w.gpx.exists]), LAMBDA s0 :
             Local(IF s0.gpx_file THEN _init_from_gpx_file(s0, w.gpx) ELSE s0, LAMBDA s1 :
             Local(_init_from_db(s1, w), LAMBDA db :
                IF db.exc # "none"
                THEN [exc |-> db.exc, self |-> NoInstance, inserts |-> db.inserts,
                      asked |-> base \cup db.asked]
                ELSE Local(_init_graph_data(db.self, w), LAMBDA s2 :
                     Local(_generate_per_lap_graphs(s2), LAMBDA lg :
                     Local(base \cup db.asked
                                \cup (IF s2.tracklist # None THEN {"maxhr"} ELSE {})
                                \cup (IF "hr_z" \in DOMAIN s2.distance_data
                                      THEN {"zones"} ELSE {}), LAMBDA asked :
                        IF lg.exc # "none"
                        THEN [exc |-> lg.exc, self |-> NoInstance, inserts |-> db.inserts,
                              asked |-> asked]
                        ELSE [exc |-> "none",
                              self |-> [x_axis |-> "distance", show_laps |-> FALSE]
                                            @@ lg.self,
                              inserts |-> db.inserts,
                              asked |-> asked]))))))

---------------------------------------------------------------------------
(* Activity: field access                                                  *)

\* "%02d" % n
Pad2(n) == IF n < 10 THEN <<"0">> \o NatToStr(n) ELSE NatToStr(n)

\* str(x) of a float in thousandths: the shortest fraction, one digit at least.
StrOfFloat(v) ==
    LET f == v % 1000
        frac == IF f % 100 = 0 THEN <<DigitChars[(f \div 100) + 1]>>
                ELSE IF f % 10 = 0
                THEN <<DigitChars[(f \div 100) + 1], DigitChars[((f \div 10) % 10) + 1]>>
                ELSE <<DigitChars[(f \div 100) + 1], DigitChars[((f \div 10) % 10) + 1],
                       DigitChars[(f % 10) + 1]>>
    IN  NatToStr(v \div 1000) \o <<".">> \o frac

\* str(value)
PyStr(value) ==
    CASE value.t = "float" -> StrOfFloat(value.v)
      [] value.t = "int" -> NatToStr(value.v)
      [] OTHER -> value.s

F_2f == Str(<<"%", "0", ".", "2", "f">>)

\* format % value, for the format "%0.2f": [exc, ret].
PyFormat(format, value) ==
    IF value.t \in {"float", "int"}
    THEN [exc |-> "none", ret |-> Format2f(Milli(value))]
    ELSE [exc |-> "TypeError", ret |-> <<>>]

\* Activity.get_value: [exc, ret, self].
get_value_code(s, param) ==
    CASE param = "distance" ->
            IF s.us_system
            THEN IF s.distance = None
                 THEN [exc |-> "TypeError", ret |-> None, self |-> s]
                 ELSE [exc |-> "none", ret |-> km2miles(s.distance), self |-> s]
            ELSE [exc |-> "none", ret |-> s.distance, self |-> s]
      [] param = "average" ->
            [exc |-> "none", self |-> s,
             ret |-> IF s.us_system THEN km2miles(s.average) ELSE s.average]
      [] param = "upositive" ->
            [exc |-> "none", self |-> s,
             ret |-> IF s.us_system THEN m2feet(s.upositive) ELSE s.upositive]
      [] param = "unegative" ->
            [exc |-> "none", self |-> s,
             ret |-> IF s.us_system THEN m2feet(s.unegative) ELSE s.unegative]
      [] param = "maxspeed" ->
            [exc |-> "none", self |-> s,
             ret |-> IF s.us_system THEN km2miles(s.maxspeed) ELSE s.maxspeed]
      [] param = "maxpace" ->
            [exc |-> "none", self |-> s,
             ret |-> IF s.us_system THEN pace_from_float(pacekm2miles(s.maxpace))
                     ELSE pace_from_float(s.maxpace)]
      [] param = "pace" ->
            [exc |-> "none", self |-> s,
             ret |-> IF s.us_system THEN pace_from_float(pacekm2miles(s.pace))
                     ELSE pace_from_float(s.pace)]
      [] param = "calories" ->
            [exc |-> "none", self |-> s, ret |-> s.calories]
      [] param = "time" ->
            IF ~Truthy(s.time)
            THEN [exc |-> "none", self |-> s, ret |-> Str(<<>>)]
            ELSE LET hms == second2time(s.time.v)
                 IN  [exc |-> "none", self |-> s,
                      ret |-> IF hms[1] = 0
                              THEN Str(Pad2(hms[2]) \o <<":">> \o Pad2(hms[3]))
                              ELSE Str(NatToStr(hms[1]) \o <<":">> \o Pad2(hms[2])
                                        \o <<":">> \o Pad2(hms[3]))]
      [] OTHER -> [exc |-> "none", self |-> s, ret |-> None]

\* get_value that keeps the converted distance in the instance.
get_value_storing(s, param) ==
    LET g == get_value_code(s, param)
    IN  IF param = "distance" /\ g.exc = "none" /\ s.distance # None
        THEN [g EXCEPT !.self = [s EXCEPT !.distance = g.ret]]
        ELSE g

\* get_value that never converts to imperial units.
get_value_metric(s, param) ==
    [get_value_code([s EXCEPT !.us_system = FALSE], param) EXCEPT !.self = s]

get_value(s, param) == get_value_code(s, param)

\* Activity.get_value_f: [exc, ret, self].
get_value_f(s, param, format, with_units) ==
    LET g == get_value(s, param)
        value == g.ret
    IN  IF g.exc # "none" THEN g
        ELSE IF ~Truthy(value) THEN [exc |-> "none", ret |-> Str(<<>>), self |-> g.self]
        ELSE LET f == IF format # None THEN PyFormat(format, value)
                      ELSE [exc |-> "none", ret |-> PyStr(value)]
             IN  IF f.exc # "none" THEN [exc |-> f.exc, ret |-> None, self |-> g.self]
                 ELSE [exc |-> "none", self |-> g.self,
                       ret |-> IF with_units /\ param \in DOMAIN g.self.units
                               THEN Str(f.ret \o g.self.units[param])
                               ELSE Str(f.ret)]

\* The names bound at module level in activity.py: its imports (those of
\* "import *" are the public names of the module imported) and its class.
ModuleNames ==
    {"logging", "os", "etree", "dateutil", "tzutc", "tzlocal", "Date", "Gpx", "GraphData",
     "km2miles", "miles2mk", "m2feet", "feet2m", "pacekm2miles", "pacemiles2mk",
     "Activity"}

\* Activity.set_value after its first statement: [exc, ret, self].
set_value_body(s, param, _value) ==
    CASE param = "distance" ->
            [exc |-> "none", ret |-> None,
             self |-> [s EXCEPT !.distance = IF s.us_system THEN miles2mk(_value) ELSE _value]]
      [] param = "average" ->
            [exc |-> "none", ret |-> None,
             self |-> [s EXCEPT !.average = IF s.us_system THEN miles2mk(_value) ELSE _value]]
      [] param = "upositive" ->
            [exc |-> "none", ret |-> None,
             self |-> [s EXCEPT !.upositive = IF s.us_system THEN feet2m(_value) ELSE _value]]
      [] param = "unegative" ->
            [exc |-> "none", ret |-> None,
             self |-> [s EXCEPT !.unegative = IF s.us_system THEN feet2m(_value) ELSE _value]]
      [] param = "maxspeed" ->
            [exc |-> "none", ret |-> None,
             self |-> [s EXCEPT !.maxspeed = IF s.us_system THEN miles2mk(_value) ELSE _value]]
      [] param = "maxpace" ->
            LET p == pace_to_float(IF s.us_system THEN pacemiles2mk(_value) ELSE _value)
            IN  IF p.exc # "none" THEN [exc |-> p.exc, ret |-> None, self |-> s]
                ELSE [exc |-> "none", ret |-> None, self |-> [s EXCEPT !.maxpace = p.ret]]
      [] param = "pace" ->
            LET p == pace_to_float(IF s.us_system THEN pacemiles2mk(_value) ELSE _value)
            IN  IF p.exc # "none" THEN [exc |-> p.exc, ret |-> None, self |-> s]
                ELSE [exc |-> "none", ret |-> None, self |-> [s EXCEPT !.pace = p.ret]]
      [] OTHER -> [exc |-> "none", ret |-> None, self |-> s]

\* Activity.set_value: [exc, ret, self].  Its first statement calls _float
\* as a module-level name.
set_value(s, param, value) ==
    IF "_float" \in ModuleNames
    THEN set_value_body(s, param, _float(value))
    ELSE [exc |-> "NameError", ret |-> None, self |-> s]

---------------------------------------------------------------------------
(* Construction as a step                                                  *)

Unread == [t |-> "unread"]

TheMain == Str(<<"m", "a", "i", "n">>)

DbResults ==
    {<<>>} \cup {<<r>> : r \in DbRows}
           \cup {<<DbRow(Float(5000), TRUE), DbRow(Float(5000), TRUE)>>}

\* How many times record.insertLaps can be called at most: once per lap of
\* the track-log, and only when the laps table has none.
MaxInsertCalls(gpx, db_laps) ==
    IF gpx.exists /\ db_laps \in {None, List(<<>>)} THEN Len(gpx.laps) ELSE 0

\* Constructor arguments and collaborator answers for a call that passes
\* the argument checks.  fail_at is the call of insertLaps that raises.
FullWorlds ==
    UNION {[id : {TheId},
            pytrainer_main : {TheMain},
            us_system : BOOLEAN,
            gpx : {g},
            db_result : DbResults,
            db_laps : {dl},
            fail_at : 0..MaxInsertCalls(g, dl),
            zones : {<<>>, <<Zone>>},
            maxhr : {PyInt(190)}] :
                g \in {NoGpx} \cup GpxFiles,
                dl \in {None} \cup {List(l) : l \in DbLapLists}}

\* A call without an id, or without the main object: nothing else is read.
HollowWorlds ==
    {[w EXCEPT !.id = i, !.pytrainer_main = m] :
        w \in {x \in FullWorlds : x.gpx = NoGpx /\ x.db_result = <<>> /\ x.db_laps = None
                                    /\ x.fail_at = 0 /\ x.zones = <<>> /\ ~x.us_system},
        i \in {None, TheId}, m \in {None, TheMain}}

Worlds == FullWorlds \cup HollowWorlds

\* The part of w the constructor read, with the names of what it read.
Observed(w, asked) ==
    [k \in DOMAIN w \cup {"asked"} |->
        IF k = "asked" THEN asked ELSE IF k \in asked THEN w[k] ELSE Unread]

NothingRead == [asked |-> {}]

NoCall == [name |-> "none"]

Init ==
    /\ pc = "start"
    /\ exc = "none"
    /\ world = NothingRead
    /\ self = NoInstance
    /\ inserts = <<>>
    /\ call = NoCall
    /\ ret = None
    /\ paceIn = None
    /\ paceFloat = None
    /\ paceOut = None
    /\ dialogs = <<>>

\* Activity(pytrainer_main, id)
Construct ==
    /\ pc = "start"
    /\ \E w \in Worlds :
        \E o \in {Activity__init__(w)} :
            /\ pc' = IF o.exc = "none" THEN "returned" ELSE "raised"
            /\ exc' = o.exc
            /\ world' = Observed(w, o.asked)
            /\ self' = o.self
            /\ inserts' = o.inserts
            /\ call' = [name |-> "__init__"]
    /\ UNCHANGED <<ret, paceIn, paceFloat, paceOut, dialogs>>

Next == Construct

Spec == Init /\ [][Next]_vars

---------------------------------------------------------------------------
(* Field access on a constructed activity                                  *)

Params ==
    {"distance", "average", "upositive", "unegative", "maxspeed", "maxpace", "pace",
     "calories", "time", "title"}

SetValues == {Float(5300), Str(<<"5", ":", "3", "0">>)}

\* Activities without laps, with and without a track-log.
AccessWorlds ==
    {w \in FullWorlds :
        /\ w.db_laps = None /\ w.fail_at = 0 /\ w.zones = <<Zone>>
        /\ Len(w.db_result) = 1
        /\ w.gpx.exists => (w.gpx.laps = <<>> /\ w.gpx.total_time_trkpts = 64
                             /\ Len(w.gpx.trkpoints) <= 1
                             /\ \A i \in 1..Len(w.gpx.trkpoints) : w.gpx.trkpoints[i].hr # None)}

InitAccess ==
    \E w \in AccessWorlds :
        LET o == Activity__init__(w)
        IN  /\ pc = "returned"
            /\ exc = "none"
            /\ world = Observed(w, o.asked)
            /\ self = o.self
            /\ inserts = o.inserts
            /\ call = [name |-> "__init__"]
            /\ ret = None
            /\ paceIn = None
            /\ paceFloat = None
            /\ paceOut = None
            /\ dialogs = <<>>

Returns(name, args, r) ==
    /\ pc' = IF r.exc = "none" THEN "returned" ELSE "raised"
    /\ exc' = r.exc
    /\ self' = r.self
    /\ ret' = r.ret
    /\ call' = [name |-> name] @@ args
    /\ UNCHANGED <<world, inserts, paceIn, paceFloat, paceOut, dialogs>>

GetValue ==
    \E param \in Params :
        Returns("get_value", [param |-> param], get_value(self, param))

GetValueF ==
    \E param \in Params, format \in {None, F_2f}, with_units \in BOOLEAN :
        Returns("get_value_f",
                [param |-> param, format |-> format, with_units |-> with_units],
                get_value_f(self, param, format, with_units))

SetValue ==
    \E param \in Params, value \in SetValues :
        Returns("set_value", [param |-> param, value |-> value],
                set_value(self, param, value))

NextAccess == GetValue \/ GetValueF \/ SetValue

SpecAccess == InitAccess /\ [][NextAccess]_vars

---------------------------------------------------------------------------
(* Pace strings through pace_to_float and pace_from_float                  *)

PaceDigits == {"0", "3", "7"}

DigitStrings(n) == UNION {[1..k -> PaceDigits] : k \in 0..n}

\* Minutes, a separator (none, ":", "." or a doubled one), up to three
\* digits of seconds.
PaceStrings ==
    {m \o sep \o sec :
        m \in DigitStrings(MaxMinuteDigits),
        sep \in {<<>>, <<":">>, <<".">>, <<":", ":">>},
        sec \in DigitStrings(3)}

InitPace ==
    /\ pc = "start"
    /\ exc = "none"
    /\ world = NothingRead
    /\ self = NoInstance
    /\ inserts = <<>>
    /\ call = NoCall
    /\ ret = None
    /\ paceIn \in {Str(x) : x \in PaceStrings}
    /\ paceFloat = None
    /\ paceOut = None
    /\ dialogs = <<>>

PaceToFloat ==
    /\ pc = "start"
    /\ LET r == pace_to_float(paceIn)
       IN  /\ paceFloat' = r.ret
           /\ exc' = r.exc
           /\ pc' = IF r.exc = "none" THEN "parsed" ELSE "raised"
    /\ call' = [name |-> "pace_to_float"]
    /\ UNCHANGED <<world, self, inserts, ret, paceIn, paceOut, dialogs>>

PaceFromFloat ==
    /\ pc = "parsed"
    /\ paceOut' = pace_from_float(paceFloat)
    /\ pc' = "formatted"
    /\ call' = [name |-> "pace_from_float"]
    /\ UNCHANGED <<exc, world, self, inserts, ret, paceIn, paceFloat, dialogs>>

NextPace == PaceToFloat \/ PaceFromFloat

SpecPace == InitPace /\ [][NextPace]_vars

---------------------------------------------------------------------------
(* StravaUpload: login, upload and the status dialog                       *)

\* What open() and readline() give for the token file: it cannot be read,
\* its first line is blank, or it holds a token.
TokenFiles == {"unreadable", "blank", "token"}

\* What get_web_data gives for the login request: a JSON object with a
\* token, one whose token is null, one without that key, text that is not
\* JSON, or no answer from the network.
LoginAnswers == {"token", "null", "no_key", "not_json", "no_network"}

\* What get_web_data gives for the upload request: a JSON object with a
\* positive upload_id, with upload_id 0, without that key, text that is
\* not JSON, or no answer from the network.
UploadAnswers == {"id", "zero", "no_key", "not_json", "no_network"}

\* What open() and read() give for the activity's track-log file.
GpxReads == {"unreadable", "blank", "data"}

\* The environment of one run of the extension; written is what the run
\* has left in the token file ("nothing": the file was not opened to write).
UploadWorlds ==
    [token_file : TokenFiles, login : LoginAnswers, token_writable : BOOLEAN,
     gpx_file : GpxReads, upload : UploadAnswers, written : {"nothing"}]

\* The exception classes raised here; all derive from Exception.
Exceptions == {"ValueError", "KeyError", "URLError"}

\* StravaUpload.get_web_data followed by result[key]: [exc, value].
\* urlopen raises URLError, json.loads ValueError, the subscript KeyError.
get_web_data(answer, value) ==
    CASE answer = "no_network" -> [exc |-> "URLError", value |-> None]
      [] answer = "not_json" -> [exc |-> "ValueError", value |-> None]
      [] answer = "no_key" -> [exc |-> "KeyError", value |-> None]
      [] answer = "null" -> [exc |-> "none", value |-> None]
      [] OTHER -> [exc |-> "none", value |-> value]

TheToken == Str(<<"t", "0", "k">>)

TheUploadId == PyInt(42)

\* StravaUpload.login_token: [exc, token, written].  A stored token is
\* used as it is; otherwise one is requested and written to the token file,
\* and a failure to read or to write the file is passed over (writing a
\* null token fails after the file was emptied).
login_token(w) ==
    IF w.token_file = "token"
    THEN [exc |-> "none", token |-> TheToken, written |-> "nothing"]
    ELSE Local(get_web_data(w.login, TheToken), LAMBDA result :
            IF result.exc # "none"
            THEN [exc |-> result.exc, token |-> None, written |-> "nothing"]
            ELSE [exc |-> "none", token |-> result.value,
                  written |-> IF ~w.token_writable THEN "nothing"
                              ELSE IF result.value = None THEN "blank"
                              ELSE "token"])

\* StravaUpload.upload: [exc, upload_id].  A track-log that cannot be read
\* or is blank is not sent and gives upload_id 0.
upload(w, token) ==
    IF w.gpx_file # "data"
    THEN [exc |-> "none", upload_id |-> PyInt(0)]
    ELSE Local(get_web_data(w.upload, IF w.upload = "id" THEN TheUploadId ELSE PyInt(0)),
               LAMBDA result :
                    IF result.exc # "none"
                    THEN [exc |-> result.exc, upload_id |-> PyInt(0)]
                    ELSE [exc |-> "none", upload_id |-> result.value])

\* The except clauses of run with the second one left out.
run_except_json_only(e) ==
    IF e \in {"ValueError", "KeyError"}
    THEN [exc |-> "none", log |-> <<"JSON error: ", e, ".  Username and password correct?">>]
    ELSE [exc |-> e, log |-> <<>>]

\* The except clauses of run: what exception e adds to the log, and the
\* exception that leaves the try statement.
run_except(e) ==
    IF e \in {"ValueError", "KeyError"}
    THEN [exc |-> "none", log |-> <<"JSON error: ", e, ".  Username and password correct?">>]
    ELSE IF e \in Exceptions
    THEN [exc |-> "none", log |-> <<"failed! ", e>>]
    ELSE [exc |-> e, log |-> <<>>]

\* StravaUpload.run: [exc, dialogs, written].  The text of the dialog is
\* the sequence of the pieces added to log.
run(w) ==
    Local(login_token(w), LAMBDA l :
    Local(IF l.exc = "none" /\ l.token # None THEN upload(w, l.token)
          ELSE [exc |-> l.exc, upload_id |-> PyInt(0)], LAMBDA u :
    Local(CASE l.exc # "none" -> run_except(l.exc)
            [] l.token = None -> [exc |-> "none", log |-> <<>>]
            [] u.exc # "none" -> run_except(u.exc)
            [] u.upload_id.v > 0 ->
                    [exc |-> "none",
                     log |-> <<"success (id: ">> \o NatToStr(u.upload_id.v) \o <<")!">>]
            [] OTHER -> [exc |-> "none", log |-> <<"failed to upload!">>], LAMBDA r :
        [exc |-> r.exc,
         dialogs |-> IF r.exc = "none" THEN <<<<"Strava Upload ">> \o r.log>> ELSE <<>>,
         written |-> l.written])))

InitUpload ==
    /\ pc = "start"
    /\ exc = "none"
    /\ world \in UploadWorlds
    /\ self = NoInstance
    /\ inserts = <<>>
    /\ call = NoCall
    /\ ret = None
    /\ paceIn = None
    /\ paceFloat = None
    /\ paceOut = None
    /\ dialogs = <<>>

\* StravaUpload.run(id)
Run ==
    /\ pc = "start"
    /\ \E r \in {run(world)} :
        /\ pc' = IF r.exc = "none" THEN "returned" ELSE "raised"
        /\ exc' = r.exc
        /\ dialogs' = dialogs \o r.dialogs
        /\ world' = [world EXCEPT !.written = r.written]
    /\ call' = [name |-> "run"]
    /\ UNCHANGED <<self, inserts, ret, paceIn, paceFloat, paceOut>>

NextUpload == Run

SpecUpload == InitUpload /\ [][NextUpload]_vars

---------------------------------------------------------------------------
(* Claims about construction (Spec)                                        *)

Asked(k) == k \in world.asked

Populated == pc = "returned" /\ call.name = "__init__" /\ "has_data" \in DOMAIN self

\* C1 (as amended): when the database lookup was made, construction returns
\* an instance only if the lookup gave exactly one row, and that instance has
\* has_data = TRUE; with no row, or two or more, construction raises the
\* exception of _init_from_db and the caller gets no instance.
C1_OneRowOnly ==
    Asked("db_result") =>
        /\ pc = "returned" => (Len(world.db_result) = 1 /\ self.has_data = TRUE)
        /\ Len(world.db_result) # 1 =>
                (pc = "raised" /\ exc = "Exception" /\ self = NoInstance)

\* C1 witness: a lookup of one row, and an instance with has_data set.
C1_Witness ==
    /\ Asked("db_result") /\ Len(world.db_result) = 1
    /\ pc = "returned" /\ self.has_data = TRUE

\* C1 as stated: construction succeeds with has_data = TRUE exactly when the
\* lookup returns one row.
C1_Original ==
    Asked("db_result") =>
        ((pc = "returned" /\ self # NoInstance /\ self.has_data = TRUE)
            <=> Len(world.db_result) = 1)

\* C2 as stated: construction without an id raises InvalidArgument and
\* returns no instance.
C2_Claim ==
    (Asked("id") /\ world.id = None) =>
        (pc = "raised" /\ exc = "InvalidArgument" /\ self = NoInstance)

\* The laps _get_laps_from_gpx derives from the track-log the constructor read.
DerivedLaps ==
    [i \in 1..Len(world.gpx.laps) |-> tmp_lap([id |-> world.id], world.gpx.laps,
                                              world.gpx.laps[i])]

DbLapsEmpty == world.db_laps = None \/ Len(world.db_laps.v) = 0

\* C3 as stated: with lap rows in the database the activity's laps are those
\* rows and insertLaps is never called; with none and a track-log, the laps
\* are derived from the track-log's laps and insertLaps is called once per
\* derived lap, in order; with neither, insertLaps is never called.
C3_Claim ==
    Asked("db_laps") =>
        /\ ~DbLapsEmpty =>
                (inserts = <<>> /\ (pc = "returned" => self.laps = world.db_laps))
        /\ (DbLapsEmpty /\ world.gpx.exists) =>
                (inserts = DerivedLaps /\ (pc = "returned" => self.laps = List(DerivedLaps)))
        /\ (DbLapsEmpty /\ ~world.gpx.exists) => inserts = <<>>

\* C4 as stated: when insertLaps fails for a derived lap, construction still
\* returns, with the derived laps.
C4_Claim ==
    (Asked("fail_at") /\ world.fail_at >= 1) =>
        (pc = "returned" /\ exc = "none" /\ self # NoInstance
            /\ self.laps = List(DerivedLaps))

\* C5 as stated: after a successful construction no entry of distance_data
\* or time_data is a series without points.
C5_Claim ==
    Populated =>
        /\ \A k \in DOMAIN self.distance_data : Len(self.distance_data[k]) > 0
        /\ \A k \in DOMAIN self.time_data : Len(self.time_data[k]) > 0

---------------------------------------------------------------------------
(* Claims about field access (SpecAccess)                                  *)

MutableFields ==
    {"distance", "average", "upositive", "unegative", "maxspeed", "maxpace", "pace"}

\* C6: a call of get_value or get_value_f leaves the instance (its scalar
\* fields, points, laps and both series mappings) as it was, and nothing is
\* written to the database.
C6_ReadsChangeNothing ==
    [][call'.name \in {"get_value", "get_value_f"}
            => (self' = self /\ inserts' = inserts /\ world' = world)]_vars

\* C6 witness: get_value("distance") has returned miles, and the stored
\* distance is still the kilometres of the database row.
C6_Witness ==
    /\ call.name = "get_value" /\ call.param = "distance"
    /\ self.us_system /\ exc = "none"
    /\ self.distance = _float(world.db_result[1].distance)
    /\ Truthy(self.distance)
    /\ ret # self.distance

\* C7 as stated: set_value with a field name outside the seven mutable
\* fields returns normally and leaves the instance unchanged.
C7_Claim ==
    [][(call'.name = "set_value" /\ call'.param \notin MutableFields)
            => (pc' = "returned" /\ exc' = "none" /\ self' = self)]_vars

\* The value get_value is to give back after set_value(param, value).
ReadBack(param, value) ==
    IF param \in {"maxpace", "pace"}
    THEN IF value.t = "str" THEN pace_from_float(pace_to_float(value).ret)
         ELSE pace_from_float(value)
    ELSE _float(value)

\* C8 as stated: set_value on one of the seven mutable fields completes, and
\* get_value of that field then returns the value set.
C8_Claim ==
    (call.name = "set_value" /\ call.param \in MutableFields) =>
        /\ pc = "returned" /\ exc = "none"
        /\ get_value(self, call.param).ret = ReadBack(call.param, call.value)

\* C9 as stated: get_value("distance") returns "" when the stored distance
\* is zero or absent.
C9_Original ==
    (call.name = "get_value" /\ call.param = "distance" /\ ~Truthy(self.distance)) =>
        (exc = "none" /\ ret = Str(<<>>))

\* C9 (as amended): get_value_f("distance") returns "" when the stored
\* distance is zero, or absent under the metric system; for a nonzero
\* distance it returns the text of the distance in the unit of the
\* measurement system (kilometres, or miles = km * 0.621371), followed by the
\* unit label exactly when with_units is true.
C9_FormattedDistance ==
    (call.name = "get_value_f" /\ call.param = "distance") =>
        /\ (self.distance = Float(0) \/ (self.distance = None /\ ~self.us_system)) =>
                (exc = "none" /\ ret = Str(<<>>))
        /\ Truthy(self.distance) =>
                LET unit == IF ~call.with_units THEN <<>>
                            ELSE IF self.us_system THEN L_miles ELSE L_km
                    conv == IF self.us_system THEN Scaled(self.distance.v, 621, 371)
                            ELSE self.distance.v
                    n == Len(ret.s) - Len(unit)
                    number == SubSeq(ret.s, 1, n)
                IN  /\ exc = "none" /\ ret.t = "str" /\ n >= 1
                    /\ SubSeq(ret.s, n + 1, Len(ret.s)) = unit
                    /\ FloatParses(number)
                    /\ FloatOfStr(number) = IF call.format = None THEN conv
                                            ELSE ((conv + 5) \div 10) * 10

\* C9 witness: a formatted read of a nonzero distance in miles, with units.
C9_Witness ==
    /\ call.name = "get_value_f" /\ call.param = "distance"
    /\ call.with_units /\ self.us_system /\ Truthy(self.distance)
    /\ exc = "none" /\ Len(ret.s) > Len(L_miles)

---------------------------------------------------------------------------
(* Claims about pace strings (SpecPace)                                    *)

\* m:ss with the separator sep: minutes without a leading zero, two digits
\* of seconds.
IsPace(str, sep) ==
    LET n == Len(str.s)
    IN  /\ n >= 4
        /\ str.s[n - 2] = sep
        /\ \A i \in (1..n) \ {n - 2} : IsDigit(str.s[i])
        /\ (str.s[1] # "0" \/ n = 4)

PaceMinutes(str) == DigitsToNat(SubSeq(str.s, 1, Len(str.s) - 3))

PaceSeconds(str) == DigitsToNat(SubSeq(str.s, Len(str.s) - 1, Len(str.s)))

ZeroPace == Str(<<"0", ":", "0", "0">>)

\* C10 as stated: pace_from_float(pace_to_float(s)) = s for every m:ss.
C10_Original ==
    (pc = "formatted" /\ IsPace(paceIn, ":")) => paceOut = paceIn

\* C10 (as amended): pace_from_float(pace_to_float(s)) = s for every m:ss
\* other than "0:00"; and pace_to_float gives the float m.ss for the
\* spelling m:ss and for the spelling m.ss alike.
C10_RoundTrip ==
    /\ (pc = "formatted" /\ IsPace(paceIn, ":") /\ paceIn # ZeroPace) => paceOut = paceIn
    /\ (pc \in {"parsed", "formatted"} /\ (IsPace(paceIn, ":") \/ IsPace(paceIn, "."))) =>
            paceFloat = Float(PaceMinutes(paceIn) * 1000 + PaceSeconds(paceIn) * 10)

\* C10 witness: a pace m:ss with nonzero minutes has made the round trip.
C10_Witness ==
    /\ pc = "formatted" /\ IsPace(paceIn, ":") /\ PaceMinutes(paceIn) > 0
    /\ paceOut = paceIn

---------------------------------------------------------------------------
(* Per-point series and units                                              *)

\* The trackpoints the constructor was given.
Points == world.gpx.trkpoints

\* A populated activity built from a track-log that has trackpoints.
HasPoints == Populated /\ world.gpx.exists /\ Len(Points) > 0

\* The pace of trackpoint p in min/km, before any limit: 60 / velocity.
RawPace(p) == IF Milli(p.velocity) = 0 THEN 0 ELSE 60000000 \div Milli(p.velocity)

\* C11: for every trackpoint, the distance-indexed x is the elapsed distance
\* (metric) or that distance times the km-to-miles factor (imperial); the
\* same system converts the elevation, speed and pace y-values of both the
\* distance- and the time-indexed series; the time-indexed x is the elapsed
\* seconds in either system.
C11_ConsistentUnits ==
    HasPoints =>
        \A i \in 1..Len(Points) :
            LET p == Points[i]
                us == self.us_system
                x == IF us THEN Float(Scaled(Milli(p.elapsed_distance), 621, 371))
                     ELSE p.elapsed_distance
                ele == IF us THEN m2feet(p.ele) ELSE p.ele
                speed == IF us THEN km2miles(p.velocity) ELSE p.velocity
                dd == self.distance_data
                td == self.time_data
            IN  /\ us = world.us_system
                /\ dd["elevation"][i] = <<x, ele>>
                /\ td["elevation"][i] = <<p.time_elapsed, ele>>
                /\ dd["speed"][i] = <<x, speed>>
                /\ td["speed"][i] = <<p.time_elapsed, speed>>
                /\ dd["pace"][i][1] = x
                /\ td["pace"][i][1] = p.time_elapsed
                /\ dd["pace"][i][2] = td["pace"][i][2]
                /\ Milli(dd["pace"][i][2]) \in
                        IF us THEN {0, Scaled(RawPace(p), 1609, 344)} ELSE {0, RawPace(p)}

\* C11 witness: an imperial activity whose first point, 5 km from the start
\* at 10 km/h, sits at x = 3.106 miles with a pace of 9.656 min/mile, and at
\* x = 30 s in the time-indexed series.
C11_Witness ==
    /\ HasPoints /\ self.us_system
    /\ Points[1].velocity = Float(10000)
    /\ self.distance_data["pace"][1] = <<Float(3106), Float(9656)>>
    /\ self.time_data["pace"][1] = <<Float(30000), Float(9656)>>

---------------------------------------------------------------------------
(* Pace limit and division by zero                                         *)

\* The laps of a populated activity (none when self.laps is None).
Laps == IF self.laps = None THEN <<>> ELSE self.laps.v

\* A lap's elapsed time and its distance in km, in thousandths.
LapTime(lap) == FloatOfStr(lap.elapsed_time.s)

LapDist(lap) == Milli(lap.distance) \div 1000

\* The pace of a lap in min/km, before any limit: time / (60 * dist).
RawLapPace(lap) ==
    IF LapDist(lap) = 0 THEN 0 ELSE (LapTime(lap) * 1000) \div (60 * LapDist(lap))

\* The pace limit a row of the database stands for.
LimitOf(row) ==
    IF row.max_pace = PyInt(0) \/ row.max_pace = Float(0) \/ row.max_pace = Str(<<>>)
    THEN None ELSE row.max_pace

\* A pace under a limit: 0 when it exceeds the limit.
Clamped(limit, pace) == IF limit # None /\ pace > Milli(limit) THEN 0 ELSE pace

\* A pace in min/km as it is emitted under the activity's unit system.
EmittedPace(pace) == IF self.us_system THEN Scaled(pace, 1609, 344) ELSE pace

\* C13: with a pace limit, every pace emitted for a trackpoint or a lap
\* whose computed pace exceeds the limit is 0, in the distance- and the
\* time-indexed series, and every other pace is the computed one; a limit
\* of 0 or "" in the database is no limit, and then no pace is clamped.
C13_PaceClamped ==
    Populated =>
        LET limit == LimitOf(world.db_result[1])
        IN  /\ self.pace_limit = limit
            /\ world.gpx.exists =>
                    \A i \in 1..Len(Points) :
                        LET y == EmittedPace(Clamped(limit, RawPace(Points[i])))
                        IN  /\ Milli(self.distance_data["pace"][i][2]) = y
                            /\ Milli(self.time_data["pace"][i][2]) = y
            /\ \A j \in 1..Len(Laps) :
                    LET y == EmittedPace(Clamped(limit, RawLapPace(Laps[j])))
                    IN  /\ self.distance_data["pace_lap"][j][2] = Float(y)
                        /\ self.time_data["pace_lap"][j][2] = Float(y)

\* C13 witness: a limit of 5.0 min/km, a trackpoint and a lap at 6.0
\* min/km, and 0 emitted for both.
C13_Witness ==
    /\ HasPoints /\ self.pace_limit = Float(5000)
    /\ RawPace(Points[1]) = 6000
    /\ Milli(self.distance_data["pace"][1][2]) = 0
    /\ Len(Laps) > 0 /\ RawLapPace(Laps[1]) = 6000
    /\ self.time_data["pace_lap"][1][2] = Float(0)

\* C14: no division by zero leaves the constructor: a trackpoint with
\* velocity 0 gets pace 0, a lap with distance 0 gets pace 0.0 and average
\* speed 0.0 whether its elapsed time is 0 or not, and ZeroDivisionError is
\* never the exception construction ends with.
C14_NoDivisionByZero ==
    /\ exc # "ZeroDivisionError"
    /\ Populated =>
        /\ world.gpx.exists =>
                \A i \in 1..Len(Points) :
                    Milli(Points[i].velocity) = 0 =>
                        /\ Milli(self.distance_data["pace"][i][2]) = 0
                        /\ Milli(self.time_data["pace"][i][2]) = 0
        /\ \A j \in 1..Len(Laps) :
                LapDist(Laps[j]) = 0 =>
                    /\ self.distance_data["pace_lap"][j][2] = Float(0)
                    /\ self.time_data["pace_lap"][j][2] = Float(0)
                    /\ self.distance_data["speed_lap"][j][2] = Float(0)
                    /\ self.time_data["speed_lap"][j][2] = Float(0)

\* C14 witness: a populated activity with a standing trackpoint, a lap of
\* no distance in 360 s and a lap of no distance in no time.
C14_Witness ==
    /\ HasPoints /\ Milli(Points[1].velocity) = 0
    /\ Milli(self.distance_data["pace"][1][2]) = 0
    /\ Len(Laps) = 2
    /\ LapDist(Laps[1]) = 0 /\ LapTime(Laps[1]) = 360000
    /\ LapDist(Laps[2]) = 0 /\ LapTime(Laps[2]) = 0
    /\ self.distance_data["speed_lap"][2][2] = Float(0)

---------------------------------------------------------------------------
(* Pause time and lap numbers                                              *)

\* Duration from the trackpoints minus duration from the laps, in seconds.
TimeDiff == world.gpx.total_time_trkpts - world.gpx.total_time

\* C15: after construction the pause time is the difference d between the
\* trackpoints' and the laps' duration when d > 4 s, and 0 when d <= 4 (d = 4
\* and negative d included); it is never negative, it is 0 without a
\* track-log, and the stored scalar fields are those of the database row
\* whatever the pause.
C15_PauseTime ==
    Populated =>
        LET row == world.db_result[1]
        IN  /\ world.gpx.exists => self.time_pause = IF TimeDiff > 4 THEN TimeDiff ELSE 0
            /\ ~world.gpx.exists => self.time_pause = 0
            /\ self.time_pause >= 0
            /\ self.time = _int(row.time)
            /\ self.calories = _int(row.calories)
            /\ self.average = _float(row.average)
            /\ self.upositive = _float(row.upositive)
            /\ self.unegative = _float(row.unegative)
            /\ self.maxspeed = _float(row.maxspeed)
            /\ self.maxpace = _float(row.maxpace)
            /\ self.pace = _float(row.pace)
            /\ Truthy(_float(row.distance)) => self.distance = _float(row.distance)

\* C15 witness: a track-log whose trackpoints last 10 s longer than its
\* laps, and a pause of 10 s beside a stored time of 3725 s.
C15_Witness ==
    /\ Populated /\ world.gpx.exists
    /\ TimeDiff = 10 /\ self.time_pause = 10
    /\ self.time = PyInt(3725)

\* Construction derived the activity's laps from the track-log.
LapsDerived == Populated /\ Asked("db_laps") /\ DbLapsEmpty /\ world.gpx.exists

\* C16 as stated: the laps derived from a track-log of n laps carry the lap
\* numbers 0, 1, ..., n-1 in track-log order, two laps of identical field
\* values included.
C16_Claim ==
    LapsDerived =>
        /\ Len(Laps) = Len(world.gpx.laps)
        /\ \A j \in 1..Len(Laps) : Laps[j].lap_number = PyInt(j - 1)

---------------------------------------------------------------------------
(* Claims about the upload extension (SpecUpload)                          *)

WebFailures == {"no_key", "not_json", "no_network"}

\* The login request was made and failed.
LoginFailed == world.token_file # "token" /\ world.login \in WebFailures

\* The upload request was made and failed.
UploadFailed ==
    /\ ~LoginFailed
    /\ world.token_file = "token" \/ world.login = "token"
    /\ world.gpx_file = "data"
    /\ world.upload \in WebFailures

\* C12: whatever fails during login or upload (no network, an answer that
\* is not JSON, an answer without the token or upload_id key, a token file
\* or a track-log that cannot be read), run returns without an exception
\* and has shown exactly one dialog, whose text starts with "Strava Upload "
\* and, after a failed request or an unsent track-log, says what failed.
C12_OneStatusShown ==
    call.name = "run" =>
        /\ pc = "returned" /\ exc = "none"
        /\ Len(dialogs) = 1
        /\ dialogs[1][1] = "Strava Upload "
        /\ (LoginFailed \/ UploadFailed) =>
                (Len(dialogs[1]) > 1 /\ dialogs[1][2] \in {"JSON error: ", "failed! "})
        /\ (~LoginFailed /\ world.login # "null" /\ world.gpx_file # "data") =>
                dialogs[1] = <<"Strava Upload ", "failed to upload!">>

\* C12 witness: the token file cannot be read, the login request gets no
\* answer from the network, and the one dialog shown says so.
C12_Witness ==
    /\ call.name = "run"
    /\ world.token_file = "unreadable" /\ world.login = "no_network"
    /\ dialogs = << <<"Strava Upload ", "failed! ", "URLError">> >>

====
